---------------------------- MODULE Spec2Model ----------------------------
(***************************************************************************)
(* A model of the poetry bot of src/bot.py: the message chunker            *)
(* split_long_message, the callback tokens that send_poem and              *)
(* show_poems_page put on inline buttons, and the button_callback handler  *)
(* that parses them again.                                                 *)
(*                                                                         *)
(* Texts and tokens are strings; Len, SubSeq and \o act on them character  *)
(* by character, with 1-based positions.  Python's 0-based indices are     *)
(* kept in the operators that model Python calls (RFind, PyPrefix, ...).   *)
(***************************************************************************)
EXTENDS Integers, Sequences, FiniteSets, TLC

VARIABLES
    \* ---- one call of split_long_message(text, max_length) ----
    body,        \* the argument `text` as the caller passed it
    max_length,  \* the argument `max_length`
    text,        \* the local `text`, shortened by every loop iteration
    parts,       \* the local list `parts` (the returned list once pc = "returned")
    pc,          \* "call" | "loop" | "returned" | "idle"
    \* ---- the bot ----
    poems,       \* the poems table: a set of rows
    view,        \* the view the last button_callback call delivered
    last,        \* the last button_callback call: its input and its outcome
    mixed,       \* the mixed_poems table: the ids of its rows
    history,     \* the poem_history table: the poem_id of the rows of today
    \* ---- records kept for the properties ----
    delivered,   \* the random poems delivered today in the current round
    first,       \* the first poem view rendered since the table last changed
    \* ---- DatabaseManager.connect_with_retry ----
    max_retries, \* self.max_retries
    retry_delay, \* self.retry_delay
    attempt,     \* the loop variable `attempt`
    conn,        \* self.conn: "none" before a connection is made, else "open"
    cpc,         \* "connect" | "sleep" | "returned" | the exception raised
    trace,       \* what the call did so far: connect outcomes and sleeps
    \* ---- the commands and text messages of the users ----
    waiting_for_poem, \* context.user_data['waiting_for_poem'] of each user
    poem_texts,  \* the poem_text of the rows of mixed_poems, in insert order
    reply        \* the last command or text message and what it did

splitVars == <<body, max_length, text, parts, pc>>
botVars   == <<poems, view, last, mixed, history, delivered, first>>
dbVars    == <<max_retries, retry_delay, attempt, conn, cpc, trace>>
chatVars  == <<waiting_for_poem, poem_texts, reply>>
vars      == <<body, max_length, text, parts, pc,
               poems, view, last, mixed, history, delivered, first,
               max_retries, retry_delay, attempt, conn, cpc, trace,
               waiting_for_poem, poem_texts, reply>>

-----------------------------------------------------------------------------
(* Bounds of the model.                                                    *)

MaxBodyLen   == 11   \* longest body handed to split_long_message
MaxMaxLength == 10   \* largest max_length handed to split_long_message
NonPositive  == 1    \* max_length also ranges over 0, -1, ..., -NonPositive
MaxParts     == MaxBodyLen + 1   \* cap on the loop of a call that cannot end
MaxFairBodyLen == 9  \* longest body of the calls followed to their end
MaxMixedPoems == 2   \* most rows of mixed_poems
MaxUsers     == 2    \* the users that write to the bot
MaxRetries   == 4    \* largest max_retries of a DatabaseManager
MaxRetryDelay == 3   \* largest retry_delay of a DatabaseManager
MaxMixedTexts == 4   \* text messages are followed while mixed_poems is shorter
MaxListPoems == 21   \* most poems of the volume whose list is paged
MaxPage      == 4    \* largest page number asked for

-----------------------------------------------------------------------------
(* Python string primitives.                                               *)

NL == "\n"

Min(a, b) == IF a < b THEN a ELSE b
Max(a, b) == IF a > b THEN a ELSE b

\* s[i] for a 0-based index i inside the string
CharAt(s, i) == SubSeq(s, i + 1, i + 1)

\* s[:n]: a negative n counts from the end
PyPrefix(s, n) ==
    IF n >= 0 THEN SubSeq(s, 1, Min(n, Len(s)))
              ELSE SubSeq(s, 1, Max(Len(s) + n, 0))

\* s[n:] for n >= 0
PySuffix(s, n) == SubSeq(s, Min(n, Len(s)) + 1, Len(s))

\* s.rfind(c): the 0-based index of the last c in s, -1 when there is none
RFind(s, c) ==
    LET hits == {i \in 0..(Len(s) - 1) : CharAt(s, i) = c}
    IN  IF hits = {} THEN -1
        ELSE CHOOSE i \in hits : \A j \in hits : j <= i

-----------------------------------------------------------------------------
(* split_long_message, src/bot.py lines 411-423.                           *)

\* `last_line_break > max_length * 0.8`.  0.8 is not a binary fraction, but
\* the double nearest to it lies above 0.8 and max_length * 0.8 is rounded to
\* a double no smaller than the exact product whenever that product is an
\* integer, so for an integer left side the test agrees with exact arithmetic.
\* PastThreshold that also accepts a line break exactly at 0.8 * max_length
PastThresholdInclusive(last_line_break, maxlen) ==
    10 * last_line_break >= 8 * maxlen

\* PastThreshold with the threshold at 0.9 * max_length
PastThresholdNinety(last_line_break, maxlen) ==
    10 * last_line_break > 9 * maxlen

\* PastThreshold without a threshold: any line break of the window is taken
PastThresholdAnyBreak(last_line_break, maxlen) == last_line_break >= 0

PastThreshold(last_line_break, maxlen) == 10 * last_line_break > 8 * maxlen

\* NextPart with a window one character too wide
NextPartWide(txt, maxlen) ==
    LET part            == PyPrefix(txt, maxlen + 1)
        last_line_break == RFind(part, NL)
    IN  IF PastThreshold(last_line_break, maxlen)
        THEN PyPrefix(txt, last_line_break)
        ELSE part

\* the chunk one loop iteration appends
NextPart(txt, maxlen) ==
    LET part            == PyPrefix(txt, maxlen)
        last_line_break == RFind(part, NL)
    IN  IF PastThreshold(last_line_break, maxlen)
        THEN PyPrefix(txt, last_line_break)
        ELSE part

\* Rest that also drops the line break a chunk was cut at
RestAfterBreak(txt, part) ==
    IF Len(part) < Len(txt) /\ CharAt(txt, Len(part)) = NL
    THEN PySuffix(txt, Len(part) + 1)
    ELSE PySuffix(txt, Len(part))

\* `text = text[len(part):]`
Rest(txt, part) == PySuffix(txt, Len(part))

\* Shortcut that sends the empty text into the loop
ShortcutNonEmpty(txt, maxlen) == txt # "" /\ Len(txt) <= maxlen

\* Shortcut that sends a body of exactly max_length characters into the loop
ShortcutStrict(txt, maxlen) == Len(txt) < maxlen

\* `if len(text) <= max_length: return [text]`
Shortcut(txt, maxlen) == Len(txt) <= maxlen

\* the loop, run to its end (it has one when maxlen >= 1)
RECURSIVE SplitLoop(_, _, _)
SplitLoop(txt, maxlen, acc) ==
    IF txt = "" THEN acc
    ELSE LET part == NextPart(txt, maxlen)
         IN  SplitLoop(Rest(txt, part), maxlen, Append(acc, part))

split_long_message(txt, maxlen) ==
    IF Shortcut(txt, maxlen) THEN <<txt>> ELSE SplitLoop(txt, maxlen, <<>>)

-----------------------------------------------------------------------------
(* The bodies and sizes split_long_message is called with.                 *)

\* A body of n characters with line breaks at the 1-based positions in nls;
\* the other characters cycle through a, b, c so that a dropped, doubled or
\* moved character changes the string.
RECURSIVE MakeBody(_, _)
MakeBody(n, nls) ==
    IF n = 0 THEN ""
    ELSE MakeBody(n - 1, nls) \o
         (IF n \in nls THEN NL ELSE CharAt("abc", n % 3))

Bodies == UNION {{MakeBody(n, nls) : nls \in SUBSET (1..n)} : n \in 0..MaxBodyLen}

MaxLengths == (0 - NonPositive)..MaxMaxLength

-----------------------------------------------------------------------------
(* One call of split_long_message, statement by statement.                 *)

\* line 412-413: the body fits, return [text]
SplitShortcut ==
    /\ pc = "call"
    /\ Shortcut(text, max_length)
    /\ parts' = <<text>>
    /\ pc' = "returned"
    /\ UNCHANGED <<body, max_length, text>>
    /\ UNCHANGED botVars
    /\ UNCHANGED <<dbVars, chatVars>>

\* line 415: parts = []
SplitEnter ==
    /\ pc = "call"
    /\ ~Shortcut(text, max_length)
    /\ parts' = <<>>
    /\ pc' = "loop"
    /\ UNCHANGED <<body, max_length, text>>
    /\ UNCHANGED botVars
    /\ UNCHANGED <<dbVars, chatVars>>

\* lines 416-422: one iteration of `while text:`
SplitIterate ==
    /\ pc = "loop"
    /\ text # ""
    /\ Len(parts) < MaxParts
    /\ LET part == NextPart(text, max_length)
       IN  /\ parts' = Append(parts, part)
           /\ text' = Rest(text, part)
    /\ UNCHANGED <<body, max_length, pc>>
    /\ UNCHANGED botVars
    /\ UNCHANGED <<dbVars, chatVars>>

\* line 423: the loop is over, return parts
SplitReturn ==
    /\ pc = "loop"
    /\ text = ""
    /\ pc' = "returned"
    /\ UNCHANGED <<body, max_length, text, parts>>
    /\ UNCHANGED botVars
    /\ UNCHANGED <<dbVars, chatVars>>

SplitNext == SplitShortcut \/ SplitEnter \/ SplitIterate \/ SplitReturn


-----------------------------------------------------------------------------
(* More Python string primitives, used on callback data.                   *)

\* s.startswith(p)
StartsWith(s, p) == Len(s) >= Len(p) /\ SubSeq(s, 1, Len(p)) = p

\* `p in s` for strings
Contains(s, p) ==
    \E i \in 1..(Len(s) - Len(p) + 1) : SubSeq(s, i, i + Len(p) - 1) = p

\* s.find(c) for a character c: 0-based index of the first c, -1 when none
Find(s, c) ==
    LET hits == {i \in 0..(Len(s) - 1) : CharAt(s, i) = c}
    IN  IF hits = {} THEN -1
        ELSE CHOOSE i \in hits : \A j \in hits : i <= j

\* s.split(c) for a character c: the fields between the delimiters
RECURSIVE PySplit(_, _)
PySplit(s, c) ==
    LET i == Find(s, c)
    IN  IF i = -1 THEN <<s>>
        ELSE <<PyPrefix(s, i)>> \o PySplit(PySuffix(s, i + 1), c)

\* the decimal digits, Digits[d + 1] being the digit of value d
Digits == << "0", "1", "2", "3", "4", "5", "6", "7", "8", "9" >>

IsDigit(c) == \E d \in 0..9 : Digits[d + 1] = c

DigitValue(c) == CHOOSE d \in 0..9 : Digits[d + 1] = c

\* the decimal digits of n >= 0
RECURSIVE NatStr(_)
NatStr(n) ==
    IF n < 10 THEN Digits[n + 1]
    ELSE NatStr(n \div 10) \o Digits[(n % 10) + 1]

\* f"{n}" for an int n
Str(n) == IF n < 0 THEN "-" \o NatStr(0 - n) ELSE NatStr(n)

\* s.strip() for the one blank character callback data can hold here
RECURSIVE PyStrip(_)
PyStrip(s) ==
    IF s = "" THEN s
    ELSE IF CharAt(s, 0) = " " THEN PyStrip(PySuffix(s, 1))
    ELSE IF CharAt(s, Len(s) - 1) = " " THEN PyStrip(PyPrefix(s, Len(s) - 1))
    ELSE s

\* the value of a non-empty string of digits
RECURSIVE NatValue(_)
NatValue(s) ==
    IF Len(s) = 1 THEN DigitValue(s)
    ELSE 10 * NatValue(PyPrefix(s, Len(s) - 1)) + DigitValue(CharAt(s, Len(s) - 1))

\* int(s): blanks around the number are dropped, one sign is allowed, the rest
\* must be one or more digits; anything else raises ValueError.
\* (A field cut out by split("_") holds no "_", so int's digit grouping with
\* underscores cannot occur.)
PyInt(s) ==
    LET t      == PyStrip(s)
        signed == t # "" /\ CharAt(t, 0) \in {"-", "+"}
        digs   == IF signed THEN PySuffix(t, 1) ELSE t
        ok     == digs # "" /\ \A i \in 0..(Len(digs) - 1) : IsDigit(CharAt(digs, i))
    IN  IF ~ok THEN [exc |-> "ValueError", val |-> 0]
        ELSE [exc |-> "none",
              val |-> IF signed /\ CharAt(t, 0) = "-"
                      THEN 0 - NatValue(digs) ELSE NatValue(digs)]

-----------------------------------------------------------------------------
(* The poems table (src/bot.py lines 136-146) and get_poem_by_id.          *)

\* a text of k copies of s
RECURSIVE Repeat(_, _)
Repeat(s, k) ==
    IF k = 0 THEN ""
    ELSE LET h == Repeat(s, k \div 2)
         IN  h \o h \o (IF k % 2 = 1 THEN s ELSE "")

PoemPartLength == 3000   \* send_poem: split_long_message(poem_text, max_length=3000)

\* The poem texts a row can hold: one that fits one part, one without line
\* breaks that is cut hard into two parts, and one of 61-character lines that
\* is cut at line breaks into three parts.  A row names its text, and
\* PoemText gives the characters.
TextNames == {"short", "two_parts", "three_parts"}

ShortText  == "ab\ncd"
TwoParts   == Repeat("abcdefghij", 301)
ThreeParts == Repeat(Repeat("abcdefghi ", 6) \o NL, 120)

PoemText(n) ==
    CASE n = "short"       -> ShortText
      [] n = "two_parts"   -> TwoParts
      [] n = "three_parts" -> ThreeParts

\* line 677, the parts of every text a row can hold
ShortTextParts  == split_long_message(ShortText, PoemPartLength)
TwoPartsParts   == split_long_message(TwoParts, PoemPartLength)
ThreePartsParts == split_long_message(ThreeParts, PoemPartLength)

PoemParts(n) ==
    CASE n = "short"       -> ShortTextParts
      [] n = "two_parts"   -> TwoPartsParts
      [] n = "three_parts" -> ThreePartsParts

\* volume_number is TEXT NOT NULL (line 141): a name of any length
LongVolume == "Daftari haftumi Masnavii Manavii Balkhi"

\* the rows the table can hold (unique_id, poem_id and volume_number; two
\* volumes hold a poem 5, one volume name holds the token delimiter and one
\* is long)
RowKeys ==
    { [unique_id |-> 1, poem_id |-> 5,  volume_number |-> "Daftari avval"],
      [unique_id |-> 2, poem_id |-> 5,  volume_number |-> "Daftari duyum"],
      [unique_id |-> 3, poem_id |-> 12, volume_number |-> "d_3"],
      [unique_id |-> 4, poem_id |-> 7,  volume_number |-> LongVolume] }

Row(k, t) ==
    [unique_id |-> k.unique_id, poem_id |-> k.poem_id,
     volume_number |-> k.volume_number, poem_text |-> t]

\* what a row of the table can be: absent ("") or present with one text.
\* Row 1 is inserted, deleted and rewritten, row 2 is inserted and deleted,
\* rows 3 and 4 stay.
TextsOf(k) ==
    IF k.unique_id = 1 THEN TextNames \cup {""}
    ELSE IF k.unique_id = 2 THEN {"short", ""}
    ELSE IF k.unique_id = 3 THEN {"three_parts"}
    ELSE {"short"}

\* every content of the table
Tables ==
    { {Row(k, f[k]) : k \in {j \in RowKeys : f[j] # ""}} :
        f \in {g \in [RowKeys -> TextNames \cup {""}] :
                 \A k \in RowKeys : g[k] \in TextsOf(k)} }

\* an optional argument: <<>> is None, <<v>> is the value v
None == <<>>
Some(v) == <<v>>

\* `if volume_number:` is false for None and for the empty string
Truthy(opt) == opt # None /\ opt[1] # ""

\* get_poem_by_id: the rows the SELECT matches; the caller takes result[0],
\* and the table fixes no order among the rows of one poem_id
get_poem_by_id(table, poem_id, volume_number) ==
    IF Truthy(volume_number)
    THEN {r \in table : r.poem_id = poem_id /\ r.volume_number = volume_number[1]}
    ELSE {r \in table : r.poem_id = poem_id}

-----------------------------------------------------------------------------
(* The collaborators of one handler run.  A fault names the calls that     *)
(* fail for the whole run: query.answer, query.edit_message_text, and the  *)
(* queries of DatabaseManager.execute_query (which re-raises, line 77).    *)
(* A failing gateway call raises the telegram.error class err; BadRequest  *)
(* and TimedOut are subclasses of NetworkError.                            *)

NoFault == [down |-> {}, err |-> "none"]

FaultModes ==
    { NoFault,
      [down |-> {"db"}, err |-> "none"],
      [down |-> {"answer"}, err |-> "TimedOut"],
      [down |-> {"edit"}, err |-> "BadRequest"] }

\* the exception a call of query.answer / query.edit_message_text raises
AnswerExc(fault) == IF "answer" \in fault.down THEN fault.err ELSE "none"
EditExc(fault)   == IF "edit" \in fault.down THEN fault.err ELSE "none"
DbExc(fault)     == IF "db" \in fault.down THEN "DbError" ELSE "none"

-----------------------------------------------------------------------------
(* Render requests.  A view is what one edit_message_text call puts on the *)
(* user's screen: its kind, what it shows, and the callback data of its    *)
(* buttons in keyboard order.                                              *)

NoView == [kind |-> "none", buttons |-> <<>>]

Button(role, data) == [role |-> role, data |-> data]

HomeButton == Button("home", "back_to_start")

\* send_message_safe(query, ...), lines 425-438, for a CallbackQuery: the
\* text goes out through query.edit_message_text, and an exception of that
\* call is logged and dropped.  (The retry in parts for texts over 4000
\* characters goes through the same failing call.)
send_message_safe(fault, v) == IF EditExc(fault) = "none" THEN v ELSE NoView

\* seq[i] for a Python list: a negative i counts from the end.  `at` is the
\* 0-based position of the element taken, `val` the element.
PyIndex(seq, i) ==
    IF 0 <= i /\ i < Len(seq)
    THEN [exc |-> "none", at |-> i, val |-> seq[i + 1]]
    ELSE IF 0 - Len(seq) <= i /\ i < 0
         THEN [exc |-> "none", at |-> Len(seq) + i, val |-> seq[Len(seq) + i + 1]]
    ELSE [exc |-> "IndexError", at |-> -1, val |-> ""]

\* PoemToken with the part written before the volume
PoemTokenPartFirst(poem_id, volume_number, part) ==
    "poem_" \o Str(poem_id) \o "_" \o Str(part) \o "_" \o volume_number

\* the callback data send_poem formats for a part of a poem, lines 694, 699, 762
PoemToken(poem_id, volume_number, part) ==
    "poem_" \o Str(poem_id) \o "_" \o volume_number \o "_" \o Str(part)

\* a previous/next button: its token and the triple the token was built from
NavButton(role, poem_id, volume_number, part) ==
    [role |-> role, data |-> PoemToken(poem_id, volume_number, part),
     target |-> [poem_id |-> poem_id, volume_number |-> volume_number, part |-> part]]

\* NavButtons that offers `previous` on the first part too
NavButtonsBeforeFirst(poem_id, volume_number, part, total_parts) ==
    IF total_parts > 1
    THEN (IF part >= 0
          THEN <<NavButton("prev", poem_id, volume_number, part - 1)>> ELSE <<>>)
         \o
         (IF part < total_parts - 1
          THEN <<NavButton("next", poem_id, volume_number, part + 1)>> ELSE <<>>)
    ELSE <<>>

\* NavButtons that offers `next` on the last part too
NavButtonsPastEnd(poem_id, volume_number, part, total_parts) ==
    IF total_parts > 1
    THEN (IF part > 0
          THEN <<NavButton("prev", poem_id, volume_number, part - 1)>> ELSE <<>>)
         \o
         (IF part < total_parts
          THEN <<NavButton("next", poem_id, volume_number, part + 1)>> ELSE <<>>)
    ELSE <<>>

\* lines 690-702: the previous/next row of the keyboard
NavButtons(poem_id, volume_number, part, total_parts) ==
    IF total_parts > 1
    THEN (IF part > 0
          THEN <<NavButton("prev", poem_id, volume_number, part - 1)>> ELSE <<>>)
         \o
         (IF part < total_parts - 1
          THEN <<NavButton("next", poem_id, volume_number, part + 1)>> ELSE <<>>)
    ELSE <<>>

\* BackButtons that takes the way back from the view on the screen instead
\* of the callback data
BackButtonsFromScreen(data, poem_id, poem) ==
    << IF view.kind = "daily"
       THEN Button("back", "back_to_daily_" \o Str(poem_id))
       ELSE Button("back", "daftar_" \o poem.volume_number),
       HomeButton >>

\* lines 704-718: back to the daily verse when the callback data holds
\* 'full_poem_', back to the poem's volume otherwise; then the home button
BackButtons(data, poem_id, poem) ==
    << IF Contains(data, "full_poem_")
       THEN Button("back", "back_to_daily_" \o Str(poem_id))
       ELSE Button("back", "daftar_" \o poem.volume_number),
       HomeButton >>

\* lines 680-735: the view of one part.  The view names the text it shows by
\* the row, the text of the row and the position `chunk` of the part among
\* the parts of that text; text_len is the length of the part.  `part` is
\* the index the footer of line 685 is computed from.
PartView(data, poem_id, poem, part, text_parts, current) ==
    [kind          |-> "poem",
     unique_id     |-> poem.unique_id,
     poem_id       |-> poem.poem_id,
     volume_number |-> poem.volume_number,
     poem_text     |-> poem.poem_text,
     chunk         |-> current.at,
     text_len      |-> Len(current.val),
     part          |-> part,
     total_parts   |-> Len(text_parts),
     buttons       |-> NavButtons(poem_id, poem.volume_number, part, Len(text_parts))
                       \o BackButtons(data, poem_id, poem)]

\* lines 755-772: the preview with a "read full" button
PreviewView(poem_id, poem, text_parts) ==
    [kind          |-> "preview",
     unique_id     |-> poem.unique_id,
     poem_id       |-> poem.poem_id,
     volume_number |-> poem.volume_number,
     poem_text     |-> poem.poem_text,
     text_len      |-> Len(PyPrefix(text_parts[1], Min(Len(text_parts[1]), 1000))),
     buttons       |-> << Button("full", PoemToken(poem_id, poem.volume_number, 0)),
                          Button("back", "daftar_" \o poem.volume_number) >>]

NotFoundView == [kind |-> "not_found", buttons |-> <<HomeButton>>]

\* the text of line 776, sent without a keyboard
PoemErrorView == [kind |-> "poem_error", buttons |-> <<>>]

\* send_poem, lines 650-776, called with a CallbackQuery whose data is `data`
\* and with search_term = "" (the only call, line 1131).  `found` is the
\* result of get_poem_by_id: <<>> for no row, <<row>> for result[0].
\* The function raises nothing: the handler of line 774 catches what the
\* body raises, and send_message_safe drops what the gateway raises.
\* The result holds the view delivered and the exception line 774 caught.
send_poem(fault, data, found, poem_id, show_full, part) ==
    IF DbExc(fault) # "none"
    THEN [view |-> send_message_safe(fault, PoemErrorView), caught |-> DbExc(fault)]
    ELSE IF found = <<>>
    THEN [view |-> send_message_safe(fault, NotFoundView), caught |-> "none"]
    ELSE
      LET poem        == found[1]
          text_parts  == PoemParts(poem.poem_text)
          total_parts == Len(text_parts)
      IN  IF show_full \/ total_parts = 1
          THEN LET current == PyIndex(text_parts, part)
               IN  IF current.exc # "none"
                   THEN [view   |-> send_message_safe(fault, PoemErrorView),
                         caught |-> current.exc]
                   ELSE \* the HTML text first (line 724); when that call
                        \* raises, the plain text through send_message_safe
                        \* (line 743), which meets the same failing call
                        [view   |-> send_message_safe(fault,
                                       PartView(data, poem_id, poem, part,
                                                text_parts, current)),
                         caught |-> "none"]
          ELSE [view   |-> send_message_safe(fault,
                               PreviewView(poem_id, poem, text_parts)),
                caught |-> "none"]

\* lines 1127-1130: the fields of a 'poem_...' token
DecodePoemToken(data) ==
    LET fields  == PySplit(data, "_")
        poem_id == PyInt(fields[2])
        part    == IF Len(fields) > 3 THEN PyInt(fields[4])
                   ELSE [exc |-> "none", val |-> 0]
    IN  [exc           |-> IF poem_id.exc # "none" THEN poem_id.exc ELSE part.exc,
         poem_id       |-> poem_id.val,
         volume_number |-> IF Len(fields) > 2 THEN Some(fields[3]) ELSE None,
         part          |-> part.val]

-----------------------------------------------------------------------------
(* The other views button_callback can open.  Each operator gives the      *)
(* result of one branch: the view delivered, the alerts query.answer       *)
(* delivered, the exception the branch lets out (exc) and the exception it *)
(* handled itself (caught).                                                *)

Result(v, alerts, exc, caught) ==
    [view |-> v, alerts |-> alerts, exc |-> exc, caught |-> caught]

\* `await query.answer(...)` as the last call of a branch
AnswerOnly(fault, label, caught) ==
    IF AnswerExc(fault) = "none"
    THEN Result(NoView, <<label>>, "none", caught)
    ELSE Result(NoView, <<>>, AnswerExc(fault), caught)

\* `await query.edit_message_text(...)` as the last call of a branch
EditOnly(fault, v, caught) ==
    IF EditExc(fault) = "none"
    THEN Result(v, <<>>, "none", caught)
    ELSE Result(NoView, <<>>, EditExc(fault), caught)

\* `await query.answer()` and then `await query.edit_message_text(...)`
AnswerThenEdit(fault, v) ==
    IF AnswerExc(fault) # "none"
    THEN Result(NoView, <<>>, AnswerExc(fault), "none")
    ELSE IF EditExc(fault) # "none"
    THEN Result(NoView, <<"">>, EditExc(fault), "none")
    ELSE Result(v, <<"">>, "none", "none")

\* the elements of a finite set of integers in increasing order
RECURSIVE SortedSeq(_)
SortedSeq(S) ==
    IF S = {} THEN <<>>
    ELSE LET m == CHOOSE x \in S : \A y \in S : x <= y
         IN  <<m>> \o SortedSeq(S \ {m})

\* start, lines 457-496, from a callback
StartView ==
    [kind |-> "start",
     buttons |-> << Button("menu", "masnavi_info"), Button("menu", "divan_info"),
                    Button("menu", "random_poem"), Button("menu", "daily_verse") >>]

start(fault) == EditOnly(fault, StartView, "none")

\* get_all_daftars, lines 256-278: the six volumes of the Masnavi
DaftarNames ==
    << "Daftari avval", "Daftari duyum", "Daftari seyum",
       "Daftari chorum", "Daftari panjum", "Daftari shashum" >>

\* masnavi_info, lines 517-546, from a callback
MasnaviView(table) ==
    [kind |-> "daftars",
     buttons |->
        [i \in 1..Len(DaftarNames) |->
            IF \E r \in table : r.volume_number = DaftarNames[i]
            THEN Button("daftar", "daftar_" \o DaftarNames[i])
            ELSE Button("daftar", "unavailable_daftar")]
        \o <<HomeButton>>]

masnavi_info(fault, table) ==
    IF DbExc(fault) # "none"
    THEN Result(NoView, <<>>, DbExc(fault), "none")
    ELSE AnswerThenEdit(fault, MasnaviView(table))

ListPageSize == 10   \* show_poems_page: chunk_size = 10

\* get_poems_by_daftar, lines 280-287: the poem ids of a volume, in order
get_poems_by_daftar(table, daftar_name) ==
    SortedSeq({r.poem_id : r \in {q \in table : q.volume_number = daftar_name}})

\* lines 583-601: the page's poems in two columns, row after row
ListButtons(current_poems, daftar_name) ==
    LET n         == Len(current_poems)
        mid_point == (n \div 2) + (n % 2)
        \* the k-th button in keyboard order: left, right, left, right, ...
        at(k) == IF k % 2 = 1 THEN current_poems[(k + 1) \div 2]
                 ELSE current_poems[mid_point + (k \div 2)]
    IN  [k \in 1..n |->
            Button("poem", "poem_" \o Str(at(k)) \o "_" \o daftar_name)]

\* a page check that forgets the upper end
ShownPageNoUpper(page_arg, total_pages) ==
    IF page_arg < 1 THEN 1 ELSE page_arg

\* lines 576-577: a page outside 1..total_pages becomes page 1
ShownPage(page_arg, total_pages) ==
    IF page_arg < 1 \/ page_arg > total_pages THEN 1 ELSE page_arg

\* show_poems_page, lines 548-648, from a callback
show_poems_page(fault, table, daftar_name, page_arg) ==
    IF DbExc(fault) # "none"
    THEN AnswerOnly(fault, "list_alert", DbExc(fault))
    ELSE
      LET ids == get_poems_by_daftar(table, daftar_name)
      IN  IF ids = <<>>
          THEN EditOnly(fault,
                        [kind |-> "empty_list", daftar_name |-> daftar_name,
                         buttons |-> <<Button("back", "back_to_daftars")>>],
                        "none")
          ELSE
            LET total_pages   == (Len(ids) + ListPageSize - 1) \div ListPageSize
                page          == ShownPage(page_arg, total_pages)
                current_chunk == page - 1
                current_poems == SubSeq(ids, current_chunk * ListPageSize + 1,
                                        Min(page * ListPageSize, Len(ids)))
                nav ==
                    (IF current_chunk > 0
                     THEN <<Button("prev", "daftar_" \o daftar_name \o "_" \o Str(page - 1))>>
                     ELSE <<>>)
                    \o
                    (IF current_chunk < total_pages - 1
                     THEN <<Button("next", "daftar_" \o daftar_name \o "_" \o Str(page + 1))>>
                     ELSE <<>>)
            IN  AnswerThenEdit(fault,
                    [kind |-> "list", daftar_name |-> daftar_name,
                     page |-> page, total_pages |-> total_pages,
                     buttons |-> ListButtons(current_poems, daftar_name) \o nav
                                 \o <<Button("back", "back_to_daftars"), HomeButton>>])

\* lines 1135-1142: the 'daftar_...' branch
DaftarBranch(fault, table, data) ==
    LET fields == PySplit(data, "_")
    IN  IF Len(fields) > 2
        THEN LET page == PyInt(fields[3])
             IN  IF page.exc # "none"
                 THEN Result(NoView, <<>>, page.exc, "none")
                 ELSE show_poems_page(fault, table, fields[2], page.val)
        ELSE show_poems_page(fault, table, fields[2], 1)

\* lines 1125-1134: the 'poem_...' branch.  Whatever the parsing or send_poem
\* raises is answered with an alert.
SentPoem(r) == Result(r.view, <<>>, "none", r.caught)

PoemFields(fault, data, found, d) ==
    IF d.exc # "none"
    THEN AnswerOnly(fault, "poem_alert", d.exc)
    ELSE SentPoem(send_poem(fault, data, found, d.poem_id, TRUE, d.part))

PoemBranch(fault, table, data, found) ==
    PoemFields(fault, data, found, DecodePoemToken(data))

\* line 1130/667: what result[0] of get_poem_by_id can be for the decoded
\* token d: <<>> when the token does not parse or no row matches, <<row>>
\* for each row the SELECT matches
FoundRows(table, d) ==
    IF d.exc # "none" \/ get_poem_by_id(table, d.poem_id, d.volume_number) = {}
    THEN {<<>>}
    ELSE {<<r>> : r \in get_poem_by_id(table, d.poem_id, d.volume_number)}

FoundFor(table, data) ==
    IF StartsWith(data, "poem_")
    THEN FoundRows(table, DecodePoemToken(data))
    ELSE {<<>>}

-----------------------------------------------------------------------------
(* The branches that read the other tables.  Their tables do not change in *)
(* this model: divan_poems holds the ghazals DivanPoems, highlighted_verses *)
(* one verse of the poem with unique_id 1, mixed_poems at least one poem.   *)

DivanPoems == {1, 2, 3}

DivanPerPage == 10   \* get_divan_ghazals: per_page=10

\* get_divan_ghazals, lines 197-214: LIMIT per_page OFFSET (page-1)*per_page;
\* the database rejects a negative OFFSET
DivanPage(page) ==
    LET all == SortedSeq(DivanPoems)
    IN  SubSeq(all, Min((page - 1) * DivanPerPage, Len(all)) + 1,
               Min(page * DivanPerPage, Len(all)))

DivanTotalPages == (Cardinality(DivanPoems) + DivanPerPage - 1) \div DivanPerPage

DivanButtons(ghazals) ==
    [i \in 1..Len(ghazals) |-> Button("ghazal", "divan_poem_" \o Str(ghazals[i]))]

\* divan_info, lines 778-833, from a callback.  Its handler reports through
\* send_message_safe(update, ...), which sends nothing for an Update that
\* holds no message.
divan_info(fault) ==
    IF DbExc(fault) # "none" THEN Result(NoView, <<>>, "none", DbExc(fault))
    ELSE IF EditExc(fault) # "none" THEN Result(NoView, <<>>, "none", EditExc(fault))
    ELSE Result([kind |-> "divan", page |-> 1,
                 buttons |-> DivanButtons(DivanPage(1))
                     \o (IF DivanTotalPages > 1
                         THEN <<Button("next", "divan_page_2")>> ELSE <<>>)
                     \o <<HomeButton>>],
                <<>>, "none", "none")

\* lines 1049-1098: the 'divan_page_...' branch
DivanPageBranch(fault, data) ==
    LET page == PyInt(PySplit(data, "_")[3])
        exc  == IF page.exc # "none" THEN page.exc
                ELSE IF DbExc(fault) # "none" \/ page.val < 1 THEN "DbError"
                ELSE EditExc(fault)
    IN  IF exc # "none" THEN AnswerOnly(fault, "divan_alert", exc)
        ELSE Result([kind |-> "divan", page |-> page.val,
                     buttons |-> DivanButtons(DivanPage(page.val))
                         \o (IF page.val > 1
                             THEN <<Button("prev", "divan_page_" \o Str(page.val - 1))>>
                             ELSE <<>>)
                         \o (IF page.val < DivanTotalPages
                             THEN <<Button("next", "divan_page_" \o Str(page.val + 1))>>
                             ELSE <<>>)
                         \o <<HomeButton>>],
                    <<>>, "none", "none")

\* lines 1099-1124: the 'divan_poem_...' branch
DivanPoemBranch(fault, data) ==
    LET ghazal_id == PyInt(PySplit(data, "_")[3])
        exc == IF ghazal_id.exc # "none" THEN ghazal_id.exc
               ELSE IF DbExc(fault) # "none" THEN DbExc(fault)
               ELSE IF ghazal_id.val \in DivanPoems THEN EditExc(fault)
               ELSE "none"
    IN  IF exc # "none" THEN AnswerOnly(fault, "divan_alert", exc)
        ELSE IF ghazal_id.val \in DivanPoems
        THEN Result([kind |-> "ghazal", poem_id |-> ghazal_id.val,
                     buttons |-> <<Button("back", "divan_info"), HomeButton>>],
                    <<>>, "none", "none")
        ELSE AnswerOnly(fault, "ghazal_not_found", "none")

\* random_command, lines 1387-1508, from a callback.  A user who is no
\* subscriber gets the prompt; when sending the prompt raises, line 1416
\* drops the exception and the poem is sent all the same.
SubscribeView ==
    [kind |-> "subscribe", buttons |-> <<Button("check", "check_subscription")>>]

\* lines 1458-1481: the poem of mixed_poems with the given id
RandomView(poem) ==
    [kind |-> "random", poem |-> poem,
     buttons |-> <<Button("again", "random_poem"), HomeButton>>]

\* lines 1482-1493: mixed_poems is empty
NoRandomView == [kind |-> "no_random", buttons |-> <<HomeButton>>]

RandomErrorView == [kind |-> "random_error", buttons |-> <<HomeButton>>]

\* lines 1426-1437: the poems without a row of today in poem_history
Unshown(mixed_poems, poem_history) == mixed_poems \ poem_history

\* What `ORDER BY RANDOM() LIMIT 1` can give one run: a poem not shown
\* today (line 1425); when there is none, any poem (line 1446, after the
\* history of today was deleted); None when mixed_poems is empty.
RandomPicks(mixed_poems, poem_history) ==
    IF Unshown(mixed_poems, poem_history) # {}
    THEN {Some(p) : p \in Unshown(mixed_poems, poem_history)}
    ELSE IF mixed_poems # {} THEN {Some(p) : p \in mixed_poems}
    ELSE {None}

\* the rows of today in poem_history after the run: line 1441 deletes them
\* when no poem is left for today, line 1453 inserts the poem picked, before
\* the poem is sent
random_history(fault, subscribed, mixed_poems, poem_history, pick) ==
    IF (~subscribed /\ EditExc(fault) = "none") \/ DbExc(fault) # "none"
    THEN poem_history
    ELSE (IF Unshown(mixed_poems, poem_history) = {} THEN {} ELSE poem_history)
         \cup (IF pick = None THEN {} ELSE {pick[1]})

random_command(fault, subscribed, pick) ==
    IF ~subscribed /\ EditExc(fault) = "none"
    THEN Result(SubscribeView, <<>>, "none", "none")
    ELSE IF DbExc(fault) # "none" \/ EditExc(fault) # "none"
    THEN \* line 1494: the handler edits the message once more
         EditOnly(fault, RandomErrorView,
                  IF DbExc(fault) # "none" THEN DbExc(fault) ELSE EditExc(fault))
    ELSE IF pick = None
    THEN Result(NoRandomView, <<>>, "none", "none")
    ELSE Result(RandomView(pick[1]), <<>>, "none", "none")

HighlightedPoem == 1   \* the unique_id of the poem the highlighted verse is of

\* daily_verse, lines 835-908, from a callback
daily_verse(fault, table) ==
    IF DbExc(fault) # "none" \/ EditExc(fault) # "none"
    THEN \* line 895: the handler edits the message once more
         EditOnly(fault, [kind |-> "daily_error", buttons |-> <<HomeButton>>],
                  IF DbExc(fault) # "none" THEN DbExc(fault) ELSE EditExc(fault))
    ELSE IF \E r \in table : r.unique_id = HighlightedPoem
    THEN Result([kind |-> "daily", unique_id |-> HighlightedPoem,
                 buttons |-> << Button("full", "full_poem_" \o Str(HighlightedPoem)),
                                Button("again", "daily_verse"), HomeButton >>],
                <<>>, "none", "none")
    ELSE Result([kind |-> "daily_none", buttons |-> <<HomeButton>>],
                <<>>, "none", "none")

\* line 1166: the callback data of the 'full poem' button of that branch
FullPoemToken(unique_id) == "poem_" \o Str(unique_id) \o "_0"

\* lines 1149-1172: the 'back_to_daily_...' branch.  The id is read from
\* field 2 of the split data.
BackToDailyBranch(fault, table, data) ==
    LET poem_id == PyInt(PySplit(data, "_")[3])
        verses  == {r \in table : r.poem_id = poem_id.val
                                  /\ r.unique_id = HighlightedPoem}
    IN  IF poem_id.exc # "none" THEN Result(NoView, <<>>, poem_id.exc, "none")
        ELSE IF DbExc(fault) # "none" THEN Result(NoView, <<>>, DbExc(fault), "none")
        ELSE IF verses = {} THEN Result(NoView, <<>>, "none", "none")
        ELSE EditOnly(fault,
                 [kind |-> "daily_back", unique_id |-> HighlightedPoem,
                  buttons |-> <<Button("full", FullPoemToken(HighlightedPoem))>>],
                 "none")

-----------------------------------------------------------------------------
(* button_callback, lines 1034-1191.                                       *)

\* lines 1041-1172: the branch the callback data selects
BranchOf(data) ==
    IF data = "masnavi_info" THEN "masnavi_info"
    ELSE IF data = "divan_info" THEN "divan_info"
    ELSE IF data = "random_poem" THEN "random_poem"
    ELSE IF data = "daily_verse" THEN "daily_verse"
    ELSE IF StartsWith(data, "divan_page_") THEN "divan_page_"
    ELSE IF StartsWith(data, "divan_poem_") THEN "divan_poem_"
    ELSE IF StartsWith(data, "poem_") THEN "poem_"
    ELSE IF StartsWith(data, "daftar_") THEN "daftar_"
    ELSE IF data = "back_to_daftars" THEN "back_to_daftars"
    ELSE IF data = "back_to_start" THEN "back_to_start"
    ELSE IF data = "unavailable_daftar" THEN "unavailable_daftar"
    ELSE IF StartsWith(data, "back_to_daily_") THEN "back_to_daily_"
    ELSE "none"

RunBranch(branch, fault, table, data, found, subscribed, pick) ==
    CASE branch = "masnavi_info"       -> masnavi_info(fault, table)
      [] branch = "divan_info"         -> divan_info(fault)
      [] branch = "random_poem"        -> random_command(fault, subscribed, pick)
      [] branch = "daily_verse"        -> daily_verse(fault, table)
      [] branch = "divan_page_"        -> DivanPageBranch(fault, data)
      [] branch = "divan_poem_"        -> DivanPoemBranch(fault, data)
      [] branch = "poem_"              -> PoemBranch(fault, table, data, found)
      [] branch = "daftar_"            -> DaftarBranch(fault, table, data)
      [] branch = "back_to_daftars"    -> masnavi_info(fault, table)
      [] branch = "back_to_start"      -> start(fault)
      [] branch = "unavailable_daftar" -> AnswerOnly(fault, "unavailable", "none")
      [] branch = "back_to_daily_"     -> BackToDailyBranch(fault, table, data)
      [] OTHER                         -> Result(NoView, <<>>, "none", "none")

\* OuterClause without the `except Exception` clause of line 1186
OuterClauseNetworkOnly(exc) ==
    IF exc = "TimedOut" THEN "TimedOut"
    ELSE IF exc \in {"NetworkError", "BadRequest"} THEN "NetworkError"
    ELSE "uncaught"

\* lines 1174-1191: the except clause that takes an exception of the try
\* block; "uncaught" when none does
OuterClause(exc) ==
    IF exc = "TimedOut" THEN "TimedOut"
    ELSE IF exc \in {"NetworkError", "BadRequest"} THEN "NetworkError"
    ELSE "Exception"

\* The whole handler.  The result holds the branch taken, the view and the
\* alerts the user got, the exception that left the handler (raised) and the
\* exception that was handled on the way (caught).
\* lines 1174-1191 applied to the result body_r of the try block
Outcome(fault, branch, body_r) ==
    LET clause == IF body_r.exc = "none" THEN "none" ELSE OuterClause(body_r.exc)
    IN  [branch |-> branch,
         view   |-> body_r.view,
         \* the clause answers with its alert; `except: pass` drops a failure
         alerts |-> IF clause \in {"none", "uncaught"} \/ AnswerExc(fault) # "none"
                    THEN body_r.alerts
                    ELSE Append(body_r.alerts, "outer_" \o clause),
         raised |-> IF clause = "uncaught" THEN body_r.exc ELSE "none",
         caught |-> IF body_r.exc # "none" THEN body_r.exc ELSE body_r.caught]

\* the branch has run after the answer of line 1039
Answered(r) == Result(r.view, <<"wait">> \o r.alerts, r.exc, r.caught)

\* lines 1036-1172: the try block.  Line 1039 is `await query.answer(...)`,
\* then comes the branch.
TryBlock(branch, fault, table, data, found, subscribed, pick) ==
    IF AnswerExc(fault) # "none"
    THEN Result(NoView, <<>>, AnswerExc(fault), "none")
    ELSE Answered(RunBranch(branch, fault, table, data, found, subscribed, pick))

button_callback(fault, table, data, found, subscribed, pick) ==
    Outcome(fault, BranchOf(data),
            TryBlock(BranchOf(data), fault, table, data, found, subscribed, pick))

\* poem_history after the handler: only random_command writes it, and the
\* branch runs only after the answer of line 1039
HistoryAfter(fault, data, subscribed, pick) ==
    IF BranchOf(data) = "random_poem" /\ AnswerExc(fault) = "none"
    THEN random_history(fault, subscribed, mixed, history, pick)
    ELSE history

-----------------------------------------------------------------------------
(* The bot as a state machine: callbacks arrive one after the other, and   *)
(* the poems table is edited from outside between them.                    *)

\* Callback data that reaches the handler without being on a button of the
\* view on the screen: tokens of older messages and hand-made ones.
CraftedData ==
    << "poem_5", "poem_5_Daftari avval_1_x",
       "poem_5_Daftari avval_7", "poem_5_Daftari avval_-1", "poem_5_Daftari avval_-9",
       "poem_5_Daftari avval_x", "poem_x_Daftari avval_0", "poem_",
       "poem_5__0", "poem_9_Daftari avval_0", "poem_7",
       "poem_5_Daftari avval_0_full_poem_1",
       "divan_page_x", "back_to_start", "full_poem_1" >>

\* `last` before the first callback and after an edit of the table
NoCall ==
    [data |-> "", pressed |-> FALSE, fault |-> NoFault, found |-> <<>>,
     branch |-> "none", alerts |-> <<>>, raised |-> "none", caught |-> "none"]

\* the defaults of DatabaseManager.__init__
DefaultMaxRetries == 3
DefaultRetryDelay == 2

\* the users that write to the bot, by user id; the ids of ADMIN_IDS
Users == 1..MaxUsers
ADMIN_USER_IDS == {1}

\* `reply` before any command or text message
NoReply == [handler |-> "none", user_id |-> 0, text |-> "", fault |-> "none",
            waiting |-> FALSE, did |-> <<>>]

\* `first` while no poem view is on record
NoRecord == [data |-> "", found |-> <<>>, view |-> NoView, between |-> 0]

Init ==
    /\ poems \in Tables
    /\ view = NoView
    /\ last = NoCall
    /\ mixed = {1}
    /\ history = {}
    /\ delivered = {}
    /\ first = NoRecord
    /\ max_retries = DefaultMaxRetries
    /\ retry_delay = DefaultRetryDelay
    /\ attempt = 0
    /\ conn = "open"
    /\ cpc = "returned"
    /\ trace = <<>>
    /\ waiting_for_poem = [user_id \in Users |-> FALSE]
    /\ poem_texts = <<>>
    /\ reply = NoReply
    /\ body = ""
    /\ max_length = PoemPartLength
    /\ text = ""
    /\ parts = <<>>
    /\ pc = "idle"

\* what a run of button_callback can meet: the row get_poem_by_id gives it,
\* the calls that fail, and whether the user is a subscriber (read by
\* random_command only)
Runs(data) ==
    FoundFor(poems, data) \X FaultModes
        \X (IF data = "random_poem" THEN BOOLEAN ELSE {TRUE})
        \X (IF data = "random_poem" THEN RandomPicks(mixed, history) ELSE {None})

\* One run of button_callback on callback data `data`, with result r.  `view`
\* becomes what the run delivered (NoView when it delivered nothing), and
\* `last` records the run: its input, the row get_poem_by_id gave it, and
\* what came of it.
Handle(data, pressed, found, fault, r, poem_history) ==
    /\ view' = r.view
    /\ last' = [data |-> data, pressed |-> pressed, fault |-> fault,
                found |-> found, branch |-> r.branch, alerts |-> r.alerts,
                raised |-> r.raised, caught |-> r.caught]
    /\ history' = poem_history
    /\ UNCHANGED <<poems, mixed>>
    /\ UNCHANGED splitVars
    /\ UNCHANGED <<dbVars, chatVars>>

\* the user presses a button of the view the last run delivered
PressButton ==
    \E i \in 1..Len(view.buttons) :
    \E run \in Runs(view.buttons[i].data) :
        /\ Handle(view.buttons[i].data, TRUE, run[1], run[2],
                  button_callback(run[2], poems, view.buttons[i].data,
                                  run[1], run[3], run[4]),
                  HistoryAfter(run[2], view.buttons[i].data, run[3], run[4]))
        /\ UNCHANGED <<delivered, first>>

\* callback data arrives from elsewhere: a button of an older message, or
\* data no button ever held
ForeignCallback ==
    \E i \in 1..Len(CraftedData) :
    \E run \in Runs(CraftedData[i]) :
        /\ Handle(CraftedData[i], FALSE, run[1], run[2],
                  button_callback(run[2], poems, CraftedData[i],
                                  run[1], run[3], run[4]),
                  HistoryAfter(run[2], CraftedData[i], run[3], run[4]))
        /\ UNCHANGED <<delivered, first>>

\* the poems table is edited from outside: one row is inserted, deleted or
\* gets another text.  The view delivered last stays on the screen.
UpdatePoems ==
    /\ \E t \in Tables :
        /\ Cardinality({r.unique_id : r \in (t \ poems) \cup (poems \ t)}) = 1
        /\ poems' = t
    /\ last' = NoCall
    /\ UNCHANGED <<view, mixed, history, delivered, first>>
    /\ UNCHANGED splitVars
    /\ UNCHANGED <<dbVars, chatVars>>

Next == PressButton \/ ForeignCallback \/ UpdatePoems

Spec == Init /\ [][Next]_vars

-----------------------------------------------------------------------------
(* The bot with a record of the first poem view: the same callbacks and the *)
(* same edits of the table as in Spec; `first` keeps the first view that    *)
(* send_poem rendered of a stored row, for as long as the row stays as it   *)
(* is, and whether another request came after it.                          *)

ReplayInit ==
    /\ poems \in Tables
    /\ view = NoView
    /\ last = NoCall
    /\ mixed = {1}
    /\ history = {}
    /\ delivered = {}
    /\ first = NoRecord
    /\ max_retries = DefaultMaxRetries
    /\ retry_delay = DefaultRetryDelay
    /\ attempt = 0
    /\ conn = "open"
    /\ cpc = "returned"
    /\ trace = <<>>
    /\ waiting_for_poem = [user_id \in Users |-> FALSE]
    /\ poem_texts = <<>>
    /\ reply = NoReply
    /\ body = ""
    /\ max_length = PoemPartLength
    /\ text = ""
    /\ parts = <<>>
    /\ pc = "idle"

\* the callbacks from elsewhere: tokens of older messages, one of them with
\* no volume and one with more fields than the handler reads
ReplayData ==
    << "poem_5", "poem_5_Daftari avval_1", "poem_5_Daftari avval_7",
       "poem_5_Daftari avval_0_full_poem_1", "poem_12_d_3_1",
       "random_poem", "daily_verse" >>

\* the runs in which no call fails and those in which the edit fails
ReplayRuns(data) ==
    {run \in Runs(data) : run[2] = NoFault \/ "edit" \in run[2].down}

\* the record after a run of the handler on `data` with result r
FirstAfter(data, found, fault, r) ==
    IF first = NoRecord
    THEN IF r.branch = "poem_" /\ fault = NoFault /\ found # None
         THEN [data |-> data, found |-> found, view |-> r.view, between |-> 0]
         ELSE NoRecord
    ELSE IF data # first.data
    THEN [first EXCEPT !.between = 1]
    ELSE first

ReplayHandle(data, pressed, found, fault, r, poem_history) ==
    /\ Handle(data, pressed, found, fault, r, poem_history)
    /\ first' = FirstAfter(data, found, fault, r)
    /\ UNCHANGED delivered

ReplayPress ==
    \E i \in 1..Len(view.buttons) :
    \E run \in ReplayRuns(view.buttons[i].data) :
        ReplayHandle(view.buttons[i].data, TRUE, run[1], run[2],
                     button_callback(run[2], poems, view.buttons[i].data,
                                     run[1], run[3], run[4]),
                     HistoryAfter(run[2], view.buttons[i].data, run[3], run[4]))

ReplayForeign ==
    \E i \in 1..Len(ReplayData) :
    \E run \in ReplayRuns(ReplayData[i]) :
        ReplayHandle(ReplayData[i], FALSE, run[1], run[2],
                     button_callback(run[2], poems, ReplayData[i],
                                     run[1], run[3], run[4]),
                     HistoryAfter(run[2], ReplayData[i], run[3], run[4]))

\* an edit of the table that takes or rewrites the row on record ends the
\* record
ReplayUpdate ==
    /\ \E t \in Tables :
        /\ Cardinality({r.unique_id : r \in (t \ poems) \cup (poems \ t)}) = 1
        /\ poems' = t
        /\ first' = IF first.found # None /\ first.found[1] \notin t
                     THEN NoRecord ELSE first
    /\ last' = NoCall
    /\ UNCHANGED <<view, mixed, history, delivered>>
    /\ UNCHANGED splitVars
    /\ UNCHANGED <<dbVars, chatVars>>

ReplayNext == ReplayPress \/ ReplayForeign \/ ReplayUpdate

ReplaySpec == ReplayInit /\ [][ReplayNext]_vars

-----------------------------------------------------------------------------
(* The specification of random_command: the callback 'random_poem' arrives  *)
(* again and again, from subscribers and others, with and without failing  *)
(* calls, and the date changes.  mixed_poems holds the poems 1..n.          *)

RandomInit ==
    /\ mixed \in {1..n : n \in 0..MaxMixedPoems}
    /\ history = {}
    /\ delivered = {}
    /\ poems = {}
    /\ view = NoView
    /\ last = NoCall
    /\ first = NoRecord
    /\ max_retries = DefaultMaxRetries
    /\ retry_delay = DefaultRetryDelay
    /\ attempt = 0
    /\ conn = "open"
    /\ cpc = "returned"
    /\ trace = <<>>
    /\ waiting_for_poem = [user_id \in Users |-> FALSE]
    /\ poem_texts = <<>>
    /\ reply = NoReply
    /\ body = ""
    /\ max_length = PoemPartLength
    /\ text = ""
    /\ parts = <<>>
    /\ pc = "idle"

\* the round of deliveries after view v was delivered: a poem joins the
\* round, and opens the next round once every poem was delivered
DeliveredAfter(v) ==
    IF v.kind # "random" THEN delivered
    ELSE IF delivered = mixed THEN {v.poem}
    ELSE delivered \cup {v.poem}

RandomRun(pressed, fault, r, poem_history) ==
    /\ Handle("random_poem", pressed, None, fault, r, poem_history)
    /\ delivered' = DeliveredAfter(r.view)
    /\ UNCHANGED first

\* one run of button_callback on 'random_poem' (line 1045)
RandomCallback ==
    \E run \in Runs("random_poem") :
        RandomRun(\E i \in 1..Len(view.buttons) : view.buttons[i].data = "random_poem",
                  run[2],
                  button_callback(run[2], poems, "random_poem", None, run[3], run[4]),
                  HistoryAfter(run[2], "random_poem", run[3], run[4]))

\* midnight: date.today() of line 1424 changes, and poem_history holds no
\* row of the new day
NewDay ==
    /\ history' = {}
    /\ delivered' = {}
    /\ last' = NoCall
    /\ UNCHANGED <<poems, view, mixed, first>>
    /\ UNCHANGED splitVars
    /\ UNCHANGED <<dbVars, chatVars>>

RandomNext == RandomCallback \/ NewDay

RandomSpec == RandomInit /\ [][RandomNext]_vars

-----------------------------------------------------------------------------
(* The specification of the chunker alone: every call of split_long_message *)
(* on a body of Bodies with a size of MaxLengths.  The bot stands still.    *)

SplitSpecInit ==
    /\ body \in Bodies
    /\ max_length \in MaxLengths
    /\ text = body
    /\ parts = <<>>
    /\ pc = "call"
    /\ poems = {}
    /\ view = NoView
    /\ last = NoCall
    /\ mixed = {}
    /\ history = {}
    /\ delivered = {}
    /\ first = NoRecord
    /\ max_retries = DefaultMaxRetries
    /\ retry_delay = DefaultRetryDelay
    /\ attempt = 0
    /\ conn = "open"
    /\ cpc = "returned"
    /\ trace = <<>>
    /\ waiting_for_poem = [user_id \in Users |-> FALSE]
    /\ poem_texts = <<>>
    /\ reply = NoReply

SplitSpec == SplitSpecInit /\ [][SplitNext]_vars

\* The call runs to its end: the interpreter executes the next statement of
\* split_long_message, which does nothing but string operations, whenever
\* there is one.
FairSplitInit ==
    /\ body \in {b \in Bodies : Len(b) <= MaxFairBodyLen}
    /\ max_length \in MaxLengths
    /\ text = body
    /\ parts = <<>>
    /\ pc = "call"
    /\ poems = {}
    /\ view = NoView
    /\ last = NoCall
    /\ mixed = {}
    /\ history = {}
    /\ delivered = {}
    /\ first = NoRecord
    /\ max_retries = DefaultMaxRetries
    /\ retry_delay = DefaultRetryDelay
    /\ attempt = 0
    /\ conn = "open"
    /\ cpc = "returned"
    /\ trace = <<>>
    /\ waiting_for_poem = [user_id \in Users |-> FALSE]
    /\ poem_texts = <<>>
    /\ reply = NoReply

FairSplitSpec == FairSplitInit /\ [][SplitNext]_vars /\ WF_vars(SplitNext)

-----
(* Properties of split_long_message, checked under SplitSpec.              *)

\* the chunks of a list, joined in order with nothing between them
RECURSIVE Join(_)
Join(seq) == IF seq = <<>> THEN "" ELSE Head(seq) \o Join(Tail(seq))

\* C1: for every body and every max_length >= 1, every chunk that
\* split_long_message has appended or returned is at most max_length
\* characters long.
C1_BoundedChunks ==
    max_length >= 1 =>
        \A i \in 1..Len(parts) : Len(parts[i]) <= max_length

\* a returned multi-chunk split in which a chunk was cut at a line break
\* (shorter than the window) and a later chunk fills the whole window
C1_Witness ==
    /\ pc = "returned"
    /\ max_length >= 1
    /\ Len(parts) >= 2
    /\ \E i \in 1..Len(parts) : Len(parts[i]) < max_length /\ i < Len(parts)
    /\ \E i \in 1..Len(parts) : Len(parts[i]) = max_length

\* C2: for every body and every max_length > 0 the returned chunks, joined in
\* order, are the body again; the loop removes no separator at a cut, so
\* there is nothing to put back between two chunks.
C2_RoundTrip ==
    (pc = "returned" /\ max_length >= 1) => Join(parts) = body

\* a returned split with a cut at a line break: the first chunk stops short
\* of the window and the second starts with the line break
C2_Witness ==
    /\ pc = "returned"
    /\ max_length >= 1
    /\ Len(parts) >= 2
    /\ Len(parts[1]) < max_length
    /\ CharAt(parts[2], 0) = NL

\* C10 as claimed: a zero-length body gives the empty sequence, a non-empty
\* body at least one chunk.
C10_EmptyBodyGivesNoChunk ==
    (pc = "returned" /\ max_length >= 1) =>
        /\ body = "" => parts = <<>>
        /\ body # "" => Len(parts) >= 1

\* C10 as amended: for max_length >= 1 a zero-length body gives the
\* one-element sequence holding the empty string, and every non-empty body
\* gives at least one chunk.
C10_EmptyBodyGivesOneEmptyChunk ==
    (pc = "returned" /\ max_length >= 1) =>
        /\ body = "" => parts = <<"">>
        /\ body # "" => Len(parts) >= 1

\* the call on the empty body has returned
C10_Witness ==
    /\ pc = "returned"
    /\ max_length >= 1
    /\ body = ""
    /\ parts = <<"">>

\* C11: called with max_length <= 0 on a non-empty body, split_long_message
\* fails at once: it neither returns a chunk sequence nor runs an iteration
\* of its loop.
C11_NonPositiveFailsFast ==
    (max_length <= 0 /\ body # "") =>
        /\ pc # "returned"
        /\ ~(pc = "loop" /\ parts # <<>>)

\* the number of iterations that cut at a line break so far: the chunks
\* shorter than the window that did not take the whole remaining text
BreakCuts ==
    Cardinality({k \in 1..Len(parts) :
                    /\ Len(parts[k]) < max_length
                    /\ (k < Len(parts) \/ text # "")})

\* the 0-based index of the last line break among the first n characters of
\* s, found by walking back from the end of the window; -1 when none
RECURSIVE LastBreakBefore(_, _)
LastBreakBefore(s, n) ==
    IF n <= 0 THEN -1
    ELSE IF CharAt(s, n - 1) = NL THEN n - 1
    ELSE LastBreakBefore(s, n - 1)

\* the cut position C12 states for a remaining text and a size
CutPosition(txt, maxlen) ==
    LET window == Min(maxlen, Len(txt))
        brk    == LastBreakBefore(txt, window)
    IN  IF 10 * brk > 8 * maxlen THEN brk ELSE window

\* C12: in every iteration of the loop (max_length >= 1) the appended chunk
\* is the remaining text up to the cut position: the index of the last line
\* break in the leading max_length-character window when that index is
\* greater than 0.8 * max_length, and max_length (or the whole remainder if
\* it is shorter) otherwise; the loop goes on with the text from that
\* position.
C12_CutPosition ==
    [][(pc = "loop" /\ max_length >= 1 /\ Len(parts') = Len(parts) + 1) =>
          LET cut == CutPosition(text, max_length)
          IN  /\ parts'[Len(parts')] = SubSeq(text, 1, cut)
              /\ text' = SubSeq(text, cut + 1, Len(text))]_vars

\* a split that first cut at a line break past the threshold and then made
\* a hard cut although the window held a line break below the threshold
C12_Witness ==
    /\ pc = "loop"
    /\ max_length >= 1
    /\ Len(parts) = 2
    /\ Len(parts[1]) < max_length
    /\ CharAt(body, Len(parts[1])) = NL
    /\ Len(parts[2]) = max_length
    /\ \E k \in 1..(Len(parts[2]) - 1) : CharAt(parts[2], k) = NL

\* C13: a cut at a line break consumes the line break: the chunk does not
\* end with it and the remaining text starts after it, so the chunks and
\* the remaining text together are short of the body by one character for
\* every cut at a line break.
C13_LineBreakConsumed ==
    (pc = "loop" /\ max_length >= 1) =>
        Len(Join(parts)) + BreakCuts + Len(text) = Len(body)

\* C14: for every body with Len(body) <= max_length the call returns exactly
\* <<body>>, wherever the line breaks of the body are.
C14_ShortBodyOneChunk ==
    (pc = "returned" /\ Len(body) <= max_length) => parts = <<body>>

\* a returned call on a body that fills the window and holds a line break
\* beyond 0.8 * max_length, where the loop would have cut
C14_Witness ==
    /\ pc = "returned"
    /\ Len(body) = max_length
    /\ 10 * RFind(body, NL) > 8 * max_length
    /\ parts = <<body>>

\* The line breaks of b are never further apart than 0.2 * maxlen: from
\* every position of b a line break, or the end of b, is reached within
\* 0.2 * maxlen characters.
DenseBreaks(b, maxlen) ==
    \A i \in 0..(Len(b) - 1) :
        \E j \in i..Len(b) :
            /\ 5 * (j - i + 1) <= maxlen
            /\ (j = Len(b) \/ CharAt(b, j) = NL)

\* every chunk of seq but the last ends just before a line break of b, and
\* no chunk is longer than maxlen
CutsAtBreaks(b, maxlen, seq) ==
    /\ \A k \in 1..Len(seq) : Len(seq[k]) <= maxlen
    /\ \A k \in 1..(Len(seq) - 1) :
           CharAt(b, Len(Join(SubSeq(seq, 1, k)))) = NL

\* 9000 characters with a line break every 60 characters
DenseScenarioBody == Repeat(Repeat("abcdefghi ", 5) \o "abcdefghi" \o NL, 150)

DenseScenarioParts == split_long_message(DenseScenarioBody, 4000)

\* C17: when the line breaks of the body are never further apart than
\* 0.2 * max_length, every boundary between two returned chunks falls at a
\* line break of the body and no chunk exceeds max_length; 9000 characters
\* with a line break every 60 characters and max_length = 4000 give exactly
\* 3 such chunks.
C17_DenseBreaksNoHardCut ==
    /\ (pc = "returned" /\ max_length >= 1 /\ DenseBreaks(body, max_length)) =>
           CutsAtBreaks(body, max_length, parts)
    /\ pc = "returned" =>
           /\ Len(DenseScenarioBody) = 9000
           /\ Len(DenseScenarioParts) = 3
           /\ CutsAtBreaks(DenseScenarioBody, 4000, DenseScenarioParts)

\* a returned split of a body with dense line breaks and other characters
\* between them, in more than one chunk
C17_Witness ==
    /\ pc = "returned"
    /\ max_length >= 1
    /\ DenseBreaks(body, max_length)
    /\ Len(parts) >= 2
    /\ \E i \in 0..(Len(body) - 1) : CharAt(body, i) # NL

\* C20: for every body and every max_length >= 1 the call terminates: every
\* iteration of the loop appends a non-empty chunk and leaves a strictly
\* shorter remaining text, and the call returns in the end.
C20_Terminates ==
    /\ [][(pc = "loop" /\ max_length >= 1 /\ Len(parts') = Len(parts) + 1) =>
            /\ parts'[Len(parts')] # ""
            /\ Len(text') < Len(text)]_vars
    /\ (max_length >= 1) ~> (pc = "returned")

\* a call that went through the loop three times or more and returned
C20_Witness ==
    /\ pc = "returned"
    /\ max_length >= 1
    /\ text = ""
    /\ Len(parts) >= 3
    /\ \E k \in 1..Len(parts) : CharAt(parts[k], 0) = NL

-----------------------------------------------------------------------------
(* Properties of the poem views and of button_callback, checked under Spec. *)

\* the run recorded in `last` took the 'poem_' branch
PoemCall == last.branch = "poem_"

\* the fields the 'poem_' branch read from the callback data of that run
LastToken == DecodePoemToken(last.data)

\* the '_'-separated fields of the callback data of that run
LastFields == PySplit(last.data, "_")

\* the run met no failing call
Healthy == last.fault = NoFault

\* the user got the alert a
HasAlert(a) == \E k \in 1..Len(last.alerts) : last.alerts[k] = a

\* the previous/next buttons of a view
NavOf(v) ==
    {v.buttons[k] : k \in {j \in 1..Len(v.buttons) : v.buttons[j].role \in {"prev", "next"}}}

\* the number of parts of the row the run was given
FoundParts == Len(PoemParts(last.found[1].poem_text))

\* C3: on every poem view, a previous/next token built from a poem id, a
\* volume name without '_' and a part >= 0 selects the 'poem_' branch and is
\* split by it into exactly that poem id, volume name and part.
C3_TokenRoundTrip ==
    view.kind = "poem" =>
        \A b \in NavOf(view) :
            (~Contains(b.target.volume_number, "_") /\ b.target.part >= 0) =>
                /\ BranchOf(b.data) = "poem_"
                /\ DecodePoemToken(b.data) =
                       [exc           |-> "none",
                        poem_id       |-> b.target.poem_id,
                        volume_number |-> Some(b.target.volume_number),
                        part          |-> b.target.part]

\* a middle part, reached by pressing a previous/next button, whose own
\* previous and next tokens hold a volume name without '_'
C3_Witness ==
    /\ PoemCall /\ last.pressed
    /\ view.kind = "poem"
    /\ view.part = 1
    /\ Cardinality(NavOf(view)) = 2
    /\ ~Contains(view.volume_number, "_")

\* C4 as claimed: a poem token of four fields whose part is at or beyond the
\* number of parts the poem has now is answered with the view of part 0 of
\* that poem.
C4_StaleIndexShowsFirstPart ==
    (/\ PoemCall /\ Healthy
     /\ Len(LastFields) = 4
     /\ LastToken.exc = "none"
     /\ last.found # <<>>
     /\ LastToken.part >= FoundParts)
    => /\ view.kind = "poem"
       /\ view.unique_id = last.found[1].unique_id
       /\ view.chunk = 0

\* C5: on the view of part i of n parts (0 <= i < n), a previous button is
\* there iff i > 0 and a next button iff i < n - 1; the previous token is
\* the token of part i - 1 and the next token that of part i + 1 of the same
\* poem id and volume; with n = 1 there is no previous/next button.
C5_NavControls ==
    (view.kind = "poem" /\ view.part >= 0) =>
        LET i     == view.part
            n     == view.total_parts
            prevs == {b \in NavOf(view) : b.role = "prev"}
            nexts == {b \in NavOf(view) : b.role = "next"}
        IN  /\ i < n
            /\ (prevs # {}) <=> (i > 0)
            /\ (nexts # {}) <=> (i < n - 1)
            /\ \A b \in prevs :
                   b.data = PoemToken(view.poem_id, view.volume_number, i - 1)
            /\ \A b \in nexts :
                   b.data = PoemToken(view.poem_id, view.volume_number, i + 1)
            /\ Cardinality(NavOf(view)) = Cardinality(prevs) + Cardinality(nexts)
            /\ Cardinality(prevs) <= 1 /\ Cardinality(nexts) <= 1
            /\ n = 1 => NavOf(view) = {}

\* the middle part of a poem of three parts: both buttons are there
C5_Witness ==
    /\ view.kind = "poem"
    /\ view.total_parts = 3
    /\ view.part = 1
    /\ \E b \in NavOf(view) : b.role = "prev"
    /\ \E b \in NavOf(view) : b.role = "next"

\* the poem branch met a token that does not parse, a part at or beyond the
\* number of parts, or a failing database query
PoemFailure ==
    \/ LastToken.exc # "none"
    \/ DbExc(last.fault) # "none"
    \/ (last.found # <<>> /\ LastToken.part >= FoundParts)

\* C6: no run of button_callback lets an exception out, whatever the
\* callback data and whichever call fails; and when the gateway calls work,
\* every parsing failure, stale part and database failure of the poem branch
\* ends in an error alert or in the error text, and in no poem view.
C6_NoExceptionEscapes ==
    /\ last.raised = "none"
    /\ (/\ PoemCall /\ PoemFailure
        /\ AnswerExc(last.fault) = "none" /\ EditExc(last.fault) = "none")
       => /\ HasAlert("poem_alert") \/ view = PoemErrorView
          /\ view.kind # "poem"

\* the user pressed a next button that went stale: the IndexError was
\* caught, the error text is on the screen, nothing left the handler
C6_Witness ==
    /\ PoemCall /\ last.pressed
    /\ LastToken.exc = "none" /\ last.found # <<>>
    /\ LastToken.part >= FoundParts
    /\ last.caught = "IndexError"
    /\ view = PoemErrorView
    /\ last.raised = "none"

\* the rows of the table for the poem id and volume of a decoded token (a
\* token without a volume field names the poem id alone)
Addressed(table, d) ==
    {r \in table : /\ r.poem_id = d.poem_id
                   /\ d.volume_number # None => r.volume_number = d.volume_number[1]}

\* C7 as claimed: when the table holds no row for the poem id and volume of
\* the token, the not-found view with the home button alone is shown, and a
\* poem view only ever shows a row of that poem id and volume.
C7_NotFoundNeverSubstitutes ==
    (PoemCall /\ Healthy /\ LastToken.exc = "none") =>
        /\ Addressed(poems, LastToken) = {} => view = NotFoundView
        /\ view.kind = "poem" =>
               \E r \in Addressed(poems, LastToken) : r.unique_id = view.unique_id

\* C8 as claimed: a poem token that has neither the three fields of a list
\* button nor the four fields of a previous/next button is never answered
\* with a poem view.
C8_WrongFieldCountRejected ==
    (PoemCall /\ Healthy /\ Len(LastFields) \notin {3, 4}) =>
        view.kind # "poem"

\* a non-empty string of decimal digits
IsDecimal(f) == f # "" /\ \A k \in 0..(Len(f) - 1) : IsDigit(CharAt(f, k))

\* C9 as claimed: a poem token whose part field is not a non-negative
\* decimal integer is answered with no part of the poem.
C9_BadPartRejected ==
    (PoemCall /\ Healthy /\ Len(LastFields) > 3 /\ ~IsDecimal(LastFields[4])) =>
        view.kind # "poem"

\* The characters of a token that take one byte in UTF-8.  The names of the
\* volumes are Tajik, written here in Latin letters: every letter after the
\* token's first field stands for a Cyrillic letter of two bytes.
OneByteChars == {"_", " ", "-", "0", "1", "2", "3", "4", "5", "6", "7", "8", "9"}

\* the length of data.encode('utf-8'), the measure of the callback limit
Utf8Length(data) ==
    LET delimiter == Find(data, "_")
    IN  Len(data) +
        Cardinality({i \in (delimiter + 1)..(Len(data) - 1) :
                        CharAt(data, i) \notin OneByteChars})

\* C15: every 'poem_...' and 'daftar_...' token on a button of a rendered
\* view is at most 64 bytes long, whatever rows the poems table holds.
C15_TokensFit ==
    \A k \in 1..Len(view.buttons) :
        (StartsWith(view.buttons[k].data, "poem_")
            \/ StartsWith(view.buttons[k].data, "daftar_")) =>
        Utf8Length(view.buttons[k].data) <= 64

\* the buttons of role "back" on a view
BackOf(v) ==
    {v.buttons[k].data : k \in {j \in 1..Len(v.buttons) : v.buttons[j].role = "back"}}

\* what a press of a button brings up when nothing fails
Decoded(data) == button_callback(NoFault, poems, data, None, TRUE, None)

\* C18: every poem view of a volume whose name holds no '_' carries one back
\* button, and button_callback takes its token to the list of the poems of
\* that volume at page 1 (the list is empty if the volume's rows were
\* deleted since).
C18_BackToOwnVolume ==
    (view.kind = "poem" /\ ~Contains(view.volume_number, "_")) =>
        /\ Cardinality(BackOf(view)) = 1
        /\ \A b \in BackOf(view) :
              /\ Decoded(b).branch = "daftar_"
              /\ Decoded(b).view.kind \in {"list", "empty_list"}
              /\ Decoded(b).view.daftar_name = view.volume_number
              /\ Decoded(b).view.kind = "list" => Decoded(b).view.page = 1

-----------------------------------------------------------------------------
(* Properties of random_command, checked under RandomSpec.                 *)

\* C19: on one day no random poem is delivered a second time before every
\* poem of mixed_poems was delivered once (then the history of the day is
\* cleared and the next round starts), and every poem delivered has a row of
\* today in poem_history.
C19_NoRepeatWithinDay ==
    [][(last'.branch = "random_poem" /\ view'.kind = "random") =>
          /\ view'.poem \notin delivered \/ delivered = mixed
          /\ view'.poem \in history']_vars

-----------------------------------------------------------------------------
(* Properties of the poem views over many requests, checked under          *)
(* ReplaySpec.                                                             *)

-----------------------------------------------------------------------------
(* The list of one volume, page by page: the volume holds the poems 1..n,   *)
(* and 'daftar_<volume>' callbacks arrive with any page number, from the    *)
(* previous/next buttons of the list on the screen or from elsewhere.       *)

PagedVolume == "Daftari avval"

\* the callback data that ask for a page of the volume
PageData ==
    {"daftar_" \o PagedVolume}
    \cup {"daftar_" \o PagedVolume \o "_" \o Str(p) : p \in (0 - 1)..MaxPage}

PageInit ==
    /\ poems \in { {Row([unique_id |-> i, poem_id |-> i,
                         volume_number |-> PagedVolume], "short") : i \in 1..n}
                   : n \in 1..MaxListPoems }
    /\ view = NoView
    /\ last = NoCall
    /\ mixed = {1}
    /\ history = {}
    /\ delivered = {}
    /\ first = NoRecord
    /\ body = ""
    /\ max_length = PoemPartLength
    /\ text = ""
    /\ parts = <<>>
    /\ pc = "idle"
    /\ max_retries = DefaultMaxRetries
    /\ retry_delay = DefaultRetryDelay
    /\ attempt = 0
    /\ conn = "open"
    /\ cpc = "returned"
    /\ trace = <<>>
    /\ waiting_for_poem = [user_id \in Users |-> FALSE]
    /\ poem_texts = <<>>
    /\ reply = NoReply

\* a 'daftar_...' callback that was not pressed on the list on the screen
RequestPage ==
    \E data \in PageData, fault \in FaultModes :
        /\ Handle(data, FALSE, None, fault,
                  button_callback(fault, poems, data, None, TRUE, None),
                  history)
        /\ UNCHANGED <<delivered, first>>

\* the user presses previous or next on the list on the screen
TurnPage ==
    \E i \in 1..Len(view.buttons), fault \in FaultModes :
        /\ view.buttons[i].role \in {"prev", "next"}
        /\ Handle(view.buttons[i].data, TRUE, None, fault,
                  button_callback(fault, poems, view.buttons[i].data, None,
                                  TRUE, None),
                  history)
        /\ UNCHANGED <<delivered, first>>

PageNext == RequestPage \/ TurnPage

PageSpec == PageInit /\ [][PageNext]_vars

-----------------------------------------------------------------------------
(* DatabaseManager.connect_with_retry, one pass of its loop per step.  The  *)
(* bot builds its DatabaseManager with the defaults (3 attempts, 2 seconds);*)
(* the calls followed here take max_retries from 1..MaxRetries and          *)
(* retry_delay from 1..MaxRetryDelay.                                       *)

\* what psycopg2.connect does on one attempt: it connects, or raises
\* OperationalError (line 56), or another exception (line 60)
ConnectOutcomes == {"connected", "OperationalError", "InterfaceError",
                    "TypeError"}

Connected(outcome) ==
    [op |-> "connect", result |-> outcome, secs |-> 0]

Slept(secs) ==
    [op |-> "sleep", result |-> "", secs |-> secs]

\* a guard of line 58 that sleeps after the last attempt too
SleepsAfterEvery(attempt_, max_retries_) == attempt_ < max_retries_

\* line 58: a failed attempt is followed by a sleep unless it was the last
SleepsAfter(attempt_, max_retries_) == attempt_ < max_retries_ - 1

ConnectInit ==
    /\ poems \in {{}}
    /\ view = NoView
    /\ last = NoCall
    /\ mixed = {}
    /\ history = {}
    /\ delivered = {}
    /\ first = NoRecord
    /\ body = ""
    /\ max_length = PoemPartLength
    /\ text = ""
    /\ parts = <<>>
    /\ pc = "idle"
    /\ max_retries \in 1..MaxRetries
    /\ retry_delay \in 1..MaxRetryDelay
    /\ attempt = 0
    /\ conn = "none"
    /\ cpc = "connect"
    /\ trace = <<>>
    /\ waiting_for_poem = [user_id \in Users |-> FALSE]
    /\ poem_texts = <<>>
    /\ reply = NoReply

\* lines 51-62: one pass of the loop body, up to the sleep
TryConnect ==
    /\ cpc = "connect"
    /\ attempt < max_retries
    /\ \E outcome \in ConnectOutcomes :
        /\ trace' = Append(trace, Connected(outcome))
        /\ conn' = IF outcome = "connected" THEN "open" ELSE conn
        /\ cpc' = IF outcome = "connected" THEN "returned"
                  ELSE IF outcome # "OperationalError" THEN outcome
                  ELSE IF SleepsAfter(attempt, max_retries) THEN "sleep"
                  ELSE "connect"
        /\ attempt' = IF outcome = "OperationalError"
                         /\ ~SleepsAfter(attempt, max_retries)
                      THEN attempt + 1 ELSE attempt
    /\ UNCHANGED <<max_retries, retry_delay>>
    /\ UNCHANGED <<splitVars, botVars, chatVars>>

\* line 59: time_module.sleep(self.retry_delay), then the next pass
Sleep ==
    /\ cpc = "sleep"
    /\ trace' = Append(trace, Slept(retry_delay))
    /\ attempt' = attempt + 1
    /\ cpc' = "connect"
    /\ UNCHANGED <<max_retries, retry_delay, conn>>
    /\ UNCHANGED <<splitVars, botVars, chatVars>>

\* lines 63-64: the loop is over without a connection
GiveUp ==
    /\ cpc = "connect"
    /\ attempt >= max_retries
    /\ cpc' = "ConnectionError"
    /\ UNCHANGED <<max_retries, retry_delay, attempt, conn, trace>>
    /\ UNCHANGED <<splitVars, botVars, chatVars>>

ConnectNext == TryConnect \/ Sleep \/ GiveUp

ConnectSpec == ConnectInit /\ [][ConnectNext]_vars

-----------------------------------------------------------------------------
(* The commands /addpoem, /cancel and /get_data and the text messages of    *)
(* the users.  The application handles one update at a time, so each        *)
(* handler runs from its first line to its last in one step.  `reply.did`   *)
(* lists what the handler did, in order: the queries it ran ("exists",      *)
(* "insert", "select <table>"), the search it started, the messages and     *)
(* the file it sent, and "raised" when an exception left the handler.       *)

\* s.lower() on ASCII text
RECURSIVE PyLower(_)
PyLower(s) ==
    IF s = "" THEN s
    ELSE (IF Find("ABCDEFGHIJKLMNOPQRSTUVWXYZ", CharAt(s, 0)) >= 0
          THEN CharAt("abcdefghijklmnopqrstuvwxyz",
                      Find("ABCDEFGHIJKLMNOPQRSTUVWXYZ", CharAt(s, 0)))
          ELSE CharAt(s, 0))
         \o PyLower(PySuffix(s, 1))

\* what can go wrong in one handler run: every execute_query raises, or
\* every reply_text / reply_document raises
ChatFaults == {"none", "db", "telegram"}

\* the outcome of sending a message or a file
Send(fault, what) == IF fault = "telegram" THEN <<"raised">> ELSE <<what>>

\* a list of allowed tables with one more name
allowed_tables_wider ==
    {"mixed_poems", "poem_history", "divan_poems", "poems",
     "highlighted_verses", "users"}

\* lines 1332-1338
allowed_tables ==
    {"mixed_poems", "poem_history", "divan_poems", "poems",
     "highlighted_verses"}

\* get_data, lines 1312-1385: what the handler does for `user_id` with the
\* command arguments `args`, when the table holds rows or none
get_data(user_id, args, has_rows, fault) ==
    IF user_id \notin ADMIN_USER_IDS THEN Send(fault, "reply denied")
    ELSE IF args = <<>> THEN Send(fault, "reply usage")
    ELSE IF PyLower(args[1]) \notin allowed_tables
    THEN Send(fault, "reply bad name")
    ELSE \* the try block of lines 1346-1378, then the handler of 1380-1385
         IF fault = "telegram" THEN <<"raised">>
         ELSE IF fault = "db"
         THEN <<"reply processing", "select " \o PyLower(args[1]),
                "reply error">>
         ELSE IF ~has_rows
         THEN <<"reply processing", "select " \o PyLower(args[1]),
                "edit no data">>
         ELSE <<"reply processing", "select " \o PyLower(args[1]),
                "document " \o PyLower(args[1])>>

\* add_mixed_poem without the check of lines 349-354
add_mixed_poem_unchecked(table, poem_text, fault) ==
    IF fault = "db"
    THEN [table |-> table, result |-> "raised", did |-> <<"exists">>]
    ELSE [table |-> Append(table, poem_text), result |-> "True",
          did |-> <<"exists", "insert">>]

\* DatabaseManager.add_mixed_poem, lines 347-359
add_mixed_poem(table, poem_text, fault) ==
    IF fault = "db"
    THEN [table |-> table, result |-> "raised", did |-> <<"exists">>]
    ELSE IF \E i \in 1..Len(table) : table[i] = poem_text
    THEN [table |-> table, result |-> "False", did |-> <<"exists">>]
    ELSE [table |-> Append(table, poem_text), result |-> "True",
          did |-> <<"exists", "insert">>]

\* line 1281
MayAddPoem(user_id) == user_id \in ADMIN_USER_IDS

\* lines 999-1000: `finally` clears the flag whatever the try block did
FlagAfterInsert(result) == FALSE

\* the replies of lines 987-998 to the result of add_mixed_poem
InsertReplies(result, fault) ==
    IF result = "raised" THEN Send(fault, "reply error")
    ELSE IF fault = "telegram" THEN <<"raised">>
    ELSE IF result = "True" THEN <<"reply added">>
    ELSE <<"reply duplicate">>

\* the texts the users send, and the arguments they give /get_data.  The
\* filter of line 1533 keeps commands away from handle_text; a text such as
\* "/ bayt" is no command and gets through.
Texts == {"bayt", "ghazal", "bayt ", "/ bayt"}

GetDataArgs ==
    { <<>>, <<"poems">>, <<"POEMS">>, <<"Mixed_Poems">>, <<"users">>,
      <<"poems;">>, <<"highlighted_verses", "poems">> }

\* mixed_poems at the start: no two rows with the same text
StartTables == { <<>>, <<"bayt">>, <<"ghazal", "bayt">> }

ChatInit ==
    /\ poems \in {{}}
    /\ view = NoView
    /\ last = NoCall
    /\ mixed = {}
    /\ history = {}
    /\ delivered = {}
    /\ first = NoRecord
    /\ body = ""
    /\ max_length = PoemPartLength
    /\ text = ""
    /\ parts = <<>>
    /\ pc = "idle"
    /\ max_retries = DefaultMaxRetries
    /\ retry_delay = DefaultRetryDelay
    /\ attempt = 0
    /\ conn = "open"
    /\ cpc = "returned"
    /\ trace = <<>>
    /\ waiting_for_poem = [user_id \in Users |-> FALSE]
    /\ poem_texts \in StartTables
    /\ reply = NoReply

\* what a handler run leaves behind
Replied(handler, user_id, message, fault, did) ==
    reply' = [handler |-> handler, user_id |-> user_id, text |-> message,
              fault |-> fault, waiting |-> waiting_for_poem[user_id],
              did |-> did]

\* /addpoem, lines 1279-1289
add_mixed_poem_command ==
    \E user_id \in Users, fault \in ChatFaults :
        /\ waiting_for_poem' =
              IF MayAddPoem(user_id)
              THEN [waiting_for_poem EXCEPT ![user_id] = TRUE]
              ELSE waiting_for_poem
        /\ Replied("addpoem", user_id, "", fault,
                   Send(fault, IF MayAddPoem(user_id) THEN "reply prompt"
                               ELSE "reply denied"))
        /\ UNCHANGED poem_texts
        /\ UNCHANGED <<splitVars, botVars, dbVars>>

\* a text message, lines 979-1005
handle_text ==
    \E user_id \in Users, message \in Texts, fault \in ChatFaults :
        /\ Len(poem_texts) < MaxMixedTexts
        /\ IF StartsWith(PyStrip(message), "/")
           THEN /\ Replied("text", user_id, message, fault, <<>>)
                /\ UNCHANGED <<waiting_for_poem, poem_texts>>
           ELSE IF waiting_for_poem[user_id]
           THEN /\ poem_texts' =
                     add_mixed_poem(poem_texts, PyStrip(message), fault).table
                /\ waiting_for_poem' =
                     [waiting_for_poem EXCEPT ![user_id] = FlagAfterInsert(
                        add_mixed_poem(poem_texts, PyStrip(message),
                                       fault).result)]
                /\ Replied("text", user_id, message, fault,
                      add_mixed_poem(poem_texts, PyStrip(message), fault).did
                      \o InsertReplies(
                           add_mixed_poem(poem_texts, PyStrip(message),
                                          fault).result, fault))
           ELSE /\ Replied("text", user_id, message, fault, <<"search">>)
                /\ UNCHANGED <<waiting_for_poem, poem_texts>>
        /\ UNCHANGED <<splitVars, botVars, dbVars>>

\* /cancel, lines 1007-1012
cancel_command ==
    \E user_id \in Users, fault \in ChatFaults :
        /\ waiting_for_poem' = [waiting_for_poem EXCEPT ![user_id] = FALSE]
        /\ Replied("cancel", user_id, "", fault,
                   Send(fault, IF waiting_for_poem[user_id]
                               THEN "reply cancelled" ELSE "reply nothing"))
        /\ UNCHANGED poem_texts
        /\ UNCHANGED <<splitVars, botVars, dbVars>>

\* /get_data with its arguments, lines 1312-1385
GetData ==
    \E user_id \in Users, args \in GetDataArgs, has_rows \in BOOLEAN,
       fault \in ChatFaults :
        /\ Replied("get_data", user_id,
                   IF args = <<>> THEN "" ELSE args[1], fault,
                   get_data(user_id, args, has_rows, fault))
        /\ UNCHANGED <<waiting_for_poem, poem_texts>>
        /\ UNCHANGED <<splitVars, botVars, dbVars>>

ChatNext == add_mixed_poem_command \/ handle_text \/ cancel_command \/ GetData

ChatSpec == ChatInit /\ [][ChatNext]_vars

-----------------------------------------------------------------------------
(* Properties of connect_with_retry, checked under ConnectSpec.            *)

Attempts == {i \in 1..Len(trace) : trace[i].op = "connect"}

Sleeps == {i \in 1..Len(trace) : trace[i].op = "sleep"}

\* C22: connect_with_retry makes at most max_retries attempts; nothing
\* follows a successful attempt or an attempt that raised something other
\* than OperationalError, and that exception leaves the call; every sleep
\* lasts retry_delay and comes right after a failed attempt and, once the
\* call is over, right before another; a call that raised ConnectionError
\* made exactly max_retries attempts, all failed with OperationalError, and
\* slept max_retries - 1 times.
C22_RetryDiscipline ==
    /\ Cardinality(Attempts) <= max_retries
    /\ \A i \in 1..Len(trace) - 1 :
          trace[i].op = "connect" => trace[i].result = "OperationalError"
    /\ \A i \in Sleeps :
          /\ trace[i].secs = retry_delay
          /\ i > 1
          /\ trace[i - 1] = Connected("OperationalError")
          /\ cpc \notin {"connect", "sleep"} => i < Len(trace)
    /\ \A i \in Attempts :
          /\ trace[i].result = "connected" => cpc = "returned" /\ conn = "open"
          /\ trace[i].result \notin {"connected", "OperationalError"}
                => cpc = trace[i].result /\ conn = "none"
    /\ cpc = "returned" => trace[Len(trace)] = Connected("connected")
    /\ cpc = "ConnectionError" =>
          /\ Cardinality(Attempts) = max_retries
          /\ Cardinality(Sleeps) = max_retries - 1
          /\ \A i \in Attempts : trace[i].result = "OperationalError"
          /\ conn = "none"

\* three attempts failed, two sleeps between them, ConnectionError raised
C22_Witness ==
    /\ cpc = "ConnectionError"
    /\ max_retries = DefaultMaxRetries
    /\ Cardinality(Attempts) = 3
    /\ Cardinality(Sleeps) = 2

-----------------------------------------------------------------------------
(* Properties of the commands and text messages, checked under ChatSpec.   *)

\* the steps of the last handler run that begin with `prefix`
Did(prefix) ==
    {i \in 1..Len(reply.did) : StartsWith(reply.did[i], prefix)}

FiveTables ==
    {"mixed_poems", "poem_history", "divan_poems", "poems",
     "highlighted_verses"}

\* C23: a run of get_data selects from a table or sends a file only when the
\* user is in ADMIN_USER_IDS and the first argument, lower-cased, is one of
\* the five allowed names; it then selects from that very table, once, and
\* a file holds the rows of that table.  No other handler exports a table.
C23_ExportGuarded ==
    /\ Did("select ") \cup Did("document ") # {} =>
          /\ reply.handler = "get_data"
          /\ reply.user_id \in ADMIN_USER_IDS
          /\ PyLower(reply.text) \in FiveTables
          /\ Cardinality(Did("select ")) = 1
          /\ \A i \in Did("select ") :
                reply.did[i] = "select " \o PyLower(reply.text)
          /\ \A i \in Did("document ") :
                /\ reply.did[i] = "document " \o PyLower(reply.text)
                /\ \E j \in Did("select ") : j < i
    /\ reply.handler = "get_data"
         /\ (reply.user_id \notin ADMIN_USER_IDS
               \/ PyLower(reply.text) \notin FiveTables)
         => Did("select ") \cup Did("document ") = {}

\* an admin asked for POEMS and got the file of table poems
C23_Witness ==
    /\ reply.handler = "get_data"
    /\ reply.user_id \in ADMIN_USER_IDS
    /\ reply.text = "POEMS"
    /\ reply.did = <<"reply processing", "select poems", "document poems">>

\* no two rows of mixed_poems hold the same text
NoDuplicates(table) ==
    \A i, j \in 1..Len(table) : table[i] = table[j] => i = j

\* the next state follows a text message that went to add_mixed_poem
AddCalled == reply'.handler = "text" /\ Did("exists")' # {}

\* C24: mixed_poems, without duplicates at the start, never holds two rows
\* with the same text.  A call of add_mixed_poem with a text already stored
\* inserts nothing and leaves the table as it was (the user is told the
\* poem exists); a call with a new text appends exactly one row with that
\* text (the user is told it was added); a call whose query raises leaves
\* the table as it was.
C24_NoDuplicateTexts ==
    /\ [](NoDuplicates(poem_texts))
    /\ [][AddCalled =>
            IF reply'.fault = "db"
            THEN poem_texts' = poem_texts
            ELSE IF \E i \in 1..Len(poem_texts) :
                       poem_texts[i] = PyStrip(reply'.text)
            THEN /\ poem_texts' = poem_texts
                 /\ Did("insert")' = {}
                 /\ reply'.fault = "none"
                       => reply'.did = <<"exists", "reply duplicate">>
            ELSE /\ poem_texts' = Append(poem_texts, PyStrip(reply'.text))
                 /\ Cardinality(Did("insert")') = 1
                 /\ reply'.fault = "none"
                       => reply'.did = <<"exists", "insert", "reply added">>
         ]_vars

\* a text stored already, sent again with a blank behind it, was refused
C24_Witness ==
    /\ reply.handler = "text"
    /\ reply.text = "bayt "
    /\ reply.did = <<"exists", "reply duplicate">>
    /\ poem_texts = <<"ghazal", "bayt">>

\* the flag of a user is set by the /addpoem of that very user, an admin
SetOnlyByAdmin ==
    \A user_id \in Users :
        ~waiting_for_poem[user_id] /\ waiting_for_poem'[user_id] =>
            /\ reply'.handler = "addpoem"
            /\ reply'.user_id = user_id
            /\ user_id \in ADMIN_USER_IDS

\* C25: the waiting_for_poem flag of a user becomes True only through
\* /addpoem sent by that user, an admin; a text message reaches
\* add_mixed_poem only when its sender is an admin, and the text message of
\* any other user is run as a search.
C25_OnlyAdminsInsert ==
    /\ [][SetOnlyByAdmin]_vars
    /\ [](reply.handler = "text" =>
            /\ Did("exists") \cup Did("insert") # {}
                  => reply.user_id \in ADMIN_USER_IDS
            /\ reply.user_id \notin ADMIN_USER_IDS
                  => reply.did = <<"search">>)

\* C26: a text message handled while the flag of its sender is set leaves
\* the flag False, whether the insert succeeded, met a duplicate or raised,
\* and is not run as a search; /cancel leaves the flag False and inserts
\* nothing.
C26_OneTextConsumed ==
    /\ reply.handler = "text" /\ reply.waiting =>
          /\ ~waiting_for_poem[reply.user_id]
          /\ Did("search") = {}
    /\ reply.handler = "cancel" =>
          /\ ~waiting_for_poem[reply.user_id]
          /\ Did("exists") \cup Did("insert") = {}

-----------------------------------------------------------------------------
(* Properties of the paged list of a volume, checked under PageSpec.       *)

\* the page number the last callback asked for (1 when it named none)
AskedPage ==
    IF Len(LastFields) > 2 THEN PyInt(LastFields[3]).val ELSE 1

\* the number of pages of ten the poems of the volume fill
PagesOf(table) ==
    LET n == Cardinality({r \in table : r.volume_number = PagedVolume})
    IN  CHOOSE k \in 0..n : 10 * (k - 1) < n /\ n <= 10 * k

\* the page numbers on the buttons of role `role` of the view
PageTokens(role) ==
    {PyInt(PySplit(view.buttons[k].data, "_")[3]).val :
        k \in {j \in 1..Len(view.buttons) : view.buttons[j].role = role}}

\* C27: for a volume with at least one poem, a callback that asks for any
\* page and meets no failing call shows the list at a page p with
\* 1 <= p <= total_pages: the page asked for when that lies within
\* 1..total_pages, page 1 otherwise.  The list has a previous button exactly
\* when p > 1 and a next button exactly when p < total_pages; they carry
\* p - 1 and p + 1, page numbers within 1..total_pages.
C27_PageWithinRange ==
    last.branch = "daftar_" /\ Healthy =>
        /\ view.kind = "list"
        /\ view.daftar_name = PagedVolume
        /\ view.total_pages = PagesOf(poems)
        /\ view.page >= 1
        /\ view.page <= view.total_pages
        /\ view.page = IF AskedPage >= 1 /\ AskedPage <= PagesOf(poems)
                       THEN AskedPage ELSE 1
        /\ PageTokens("prev") = IF view.page > 1 THEN {view.page - 1} ELSE {}
        /\ PageTokens("next") = IF view.page < view.total_pages
                                THEN {view.page + 1} ELSE {}
        /\ \A p \in PageTokens("prev") \cup PageTokens("next") :
              p >= 1 /\ p <= view.total_pages

\* page 4 was asked of a volume of three pages, and page 1 is shown
C27_Witness ==
    /\ last.branch = "daftar_"
    /\ Healthy
    /\ AskedPage = 4
    /\ view.kind = "list"
    /\ view.total_pages = 3
    /\ view.page = 1
    /\ PageTokens("next") = {2}

-----------------------------------------------------------------------------
(* Properties of chains of presses, checked under Spec.                    *)

\* the press that leads to the next state took a button of role `role` from
\* the view on the screen
Pressed(roles) ==
    /\ last'.pressed
    /\ \E k \in 1..Len(view.buttons) :
          /\ view.buttons[k].role \in roles
          /\ view.buttons[k].data = last'.data

\* the press found the row the poem view on the screen was rendered from,
\* with the text it had then
SameBody ==
    /\ last'.found # None
    /\ last'.found[1].unique_id = view.unique_id
    /\ last'.found[1].poem_text = view.poem_text

\* C21: while the stored text of a poem stays the same, the token of a list
\* button pressed on a list view, and the token of a previous/next button
\* pressed on a poem view of a part 0 <= i < n, decode to a part within
\* 0..n-1 of the text split again; when no call fails, the press renders
\* that part and no error view.
C21_ChainStaysInRange ==
    [][((Pressed({"poem"}) /\ view.kind = "list" /\ last'.found # None)
        \/ (Pressed({"prev", "next"}) /\ view.kind = "poem"
               /\ view.part >= 0 /\ view.part < view.total_parts /\ SameBody))
       =>
       /\ DecodePoemToken(last'.data).exc = "none"
       /\ DecodePoemToken(last'.data).part >= 0
       /\ DecodePoemToken(last'.data).part
              < Len(PoemParts(last'.found[1].poem_text))
       /\ last'.fault = NoFault =>
              /\ view'.kind = "poem"
              /\ view'.part = DecodePoemToken(last'.data).part
              /\ view'.chunk = view'.part]_vars

\* the third part of a poem, reached by a press of `next` on its second part
C21_Witness ==
    /\ last.pressed
    /\ Healthy
    /\ view.kind = "poem"
    /\ view.total_parts = 3
    /\ view.part = 2
    /\ LastToken.part = 2
    /\ Len(LastFields) = 4

-----------------------------------------------------------------------------
(* Properties of the callback data the views issue, checked under Spec.    *)

\* C28: the callback data of every button the user presses on the view on
\* the screen is matched by a branch of button_callback, and the run, when
\* no call fails, answers with a view or with an alert other than the
\* 'please wait' notice of line 1039.
C28_EveryIssuedTokenHandled ==
    last.pressed /\ Healthy =>
        /\ last.branch # "none"
        /\ view # NoView
             \/ \E k \in 1..Len(last.alerts) : last.alerts[k] # "wait"

\* C29: the callback data of the 'full poem' button of the back_to_daily
\* view, given to button_callback, open part 0 of the poem the highlighted
\* verse belongs to: the row with that unique_id, shown under its own volume.
C29_FullPoemOpensVerse ==
    \A r \in poems : r.unique_id = HighlightedPoem =>
        \A found \in FoundFor(poems, FullPoemToken(r.unique_id)) :
            LET v == button_callback(NoFault, poems,
                                     FullPoemToken(r.unique_id), found,
                                     TRUE, None).view
            IN  /\ v.kind = "poem"
                /\ v.unique_id = r.unique_id
                /\ v.volume_number = r.volume_number
                /\ v.part = 0

=============================================================================
